---- MODULE Spec2Model ----
(***************************************************************************)
(* A model of the post-tag crate: the PostSystem trait (src/src/lib.rs),   *)
(* the reference representation VecDequeBools                              *)
(* (src/src/vec_deque_bools.rs) and the two packed BitString variants      *)
(* (src/src/system/bitstring.rs, with the cached `len` field, equality and *)
(* PREFERRED_TIMESTEP = 11; src/src/bitstring.rs, without `len`, with the  *)
(* trait's ControlFlow-returning evolve_preferred and                      *)
(* PREFERRED_TIMESTEP = 10).                                               *)
(*                                                                         *)
(* Definitions modelled from src/src/system/bitstring.rs carry the         *)
(* source's names; those of src/src/bitstring.rs carry the suffix _v1;     *)
(* those of VecDequeBools the prefix vdb_.                                 *)
(*                                                                         *)
(* Encodings.                                                              *)
(*  - A machine word (usize, u64) is the set of the positions of its one   *)
(*    bits, a subset of 0..W-1: `|` is \cup, `&` is \cap, `!` is the       *)
(*    complement in MAX, shifts and rotations move positions.  TLC's       *)
(*    integers are 32 bits wide, a word is 64.                             *)
(*  - A usize counter (len, length()) is an integer; a negative value v    *)
(*    stands for the wrapped value 2^64 + v of a build without overflow    *)
(*    checks.  ult is the unsigned comparison on this encoding.            *)
(*  - `debug` is the build profile: TRUE is a build with debug assertions  *)
(*    and overflow checks (cargo's dev and test profiles), FALSE one       *)
(*    without (release, bench).  An arithmetic overflow panics in the      *)
(*    first and wraps in the second.                                       *)
(***************************************************************************)
EXTENDS Integers, Sequences, FiniteSets, TLC

VARIABLES
    debug,      \* build profile, fixed for a run
    op,         \* the last operation called ("new" after construction)
    input,      \* the compressed input given to new_decompressed
    vdb,        \* the VecDequeBools system
    bs,         \* the BitString system
    bs2,        \* a second BitString
    bs3,        \* a third BitString
    vdb_pre,    \* vdb before the last operation
    bs_pre,     \* bs before the last operation
    bs2_pre,    \* bs2 before the last operation
    vdb_ret,    \* what the last operation returned on vdb
    bs_ret,     \* what the last operation returned on bs
    vdb_out,    \* evolve_multi on vdb: the k of Break(k), the steps applied
    bs_out,     \* evolve_multi on bs: the k of Break(k), the steps applied
    arg,        \* the arguments of the last operation
    steps       \* number of operations called so far

vars == <<debug, op, input, vdb, bs, bs2, bs3, vdb_pre, bs_pre, bs2_pre,
          vdb_ret, bs_ret, vdb_out, bs_out, arg, steps>>

-----------------------------------------------------------------------------
(* Bounds of the model *)

\* every compressed input of at most this many booleans is tried
MaxShort == 3
\* every prefix of at most this many booleans of each periodic pattern is tried
MaxPattern == 44
\* operations called on a system after its construction
MaxSteps == 30
\* single evolve calls made on a system that is also evolved by batches
MaxBatchSteps == 12
\* evolve_preferred calls made on a system
MaxBatches == 3
\* evolve_multi is called with every n from 0 to this
MaxN == 12
\* the prefixes of the patterns tried as inputs of evolve_multi
MaxMultiPattern == 13
\* evolve_multi calls made on a system
MaxCalls == 1
\* append and delete calls made on the two buffers that are compared
MaxBufOps == 4
\* append and delete calls made on a buffer, with any count
MaxOverOps == 3
\* calls made on a buffer within the requirements of the methods
MaxOps == 3
\* append and delete calls made on each of the three buffers that are compared
MaxEqOps == 2
\* append and delete calls, with any count, made on the two buffers compared
MaxEqOverOps == 4

-----------------------------------------------------------------------------
(* Machine words *)

\* usize::BITS on the 64-bit targets the crate is written for
W == 64

\* usize::MAX
MAX == 0..(W - 1)

\* w << k, for k < W
shl(w, k) == {i + k : i \in {j \in w : j + k < W}}

\* w >> k, for k < W
shr(w, k) == {i - k : i \in {j \in w : j >= k}}

\* w.rotate_left(k)
rotate_left(w, k) == {(i + k) % W : i \in w}

\* !w
not(w) == MAX \ w

\* the word of a number below 2^16
ToWord(x) == {i \in 0..15 : (x \div (2 ^ i)) % 2 = 1}

RECURSIVE ToNat(_)
\* the number of a word below 2^16
ToNat(w) == IF w = {} THEN 0
            ELSE LET i == CHOOSE j \in w : TRUE IN 2 ^ i + ToNat(w \ {i})

\* a < b on usize values, a negative integer standing for a wrapped value
ult(a, b) == IF a < 0 THEN b < 0 /\ a < b ELSE b < 0 \/ a < b

-----------------------------------------------------------------------------
(* src/src/system/bitstring.rs: BitString *)

\* BitString::new
new == [words |-> << {} >>, start |-> 0, end |-> 0, len |-> 0]

\* BitString::length
length(b) == b.len

\* append with the bug of resetting `end` to 0 when a word is pushed, in place
\* of reducing it modulo W
append_end_reset(b, bits, count) ==
    LET rotated == rotate_left(bits, b.end)
        lower_mask == shl(MAX, b.end)
        upper_mask == not(lower_mask)
        back == Len(b.words)
        words1 == [b.words EXCEPT ![back] = @ \cup (rotated \cap lower_mask)]
        end1 == b.end + count
    IN  IF end1 >= W
        THEN [b EXCEPT !.words = Append(words1, rotated \cap upper_mask),
                       !.end = 0,
                       !.len = @ + count]
        ELSE [b EXCEPT !.words = words1, !.end = end1, !.len = @ + count]

\* BitString::append(bits, count), count <= W
append(b, bits, count) ==
    LET rotated == rotate_left(bits, b.end)
        lower_mask == shl(MAX, b.end)
        upper_mask == not(lower_mask)
        back == Len(b.words)
        words1 == [b.words EXCEPT ![back] = @ \cup (rotated \cap lower_mask)]
        end1 == b.end + count
    IN  IF end1 >= W
        THEN [b EXCEPT !.words = Append(words1, rotated \cap upper_mask),
                       !.end = end1 % W,
                       !.len = @ + count]
        ELSE [b EXCEPT !.words = words1, !.end = end1, !.len = @ + count]

\* delete_bits with the bug of not reducing `start` modulo W when the delete
\* crosses a word boundary
delete_bits_start_unreduced(b, count) ==
    LET mask == shr(MAX, (W - count) % W)
        lower == shr(b.words[1], b.start)
        start1 == b.start + count
        crosses == start1 >= W
        popped == Tail(b.words)
        b2 == IF ~crosses THEN [b EXCEPT !.start = start1]
              ELSE IF popped = << >>
                   THEN [b EXCEPT !.words = << {} >>, !.start = 0, !.end = 0]
              ELSE [b EXCEPT !.words = popped,
                             !.start = start1,
                             !.end = IF Len(popped) <= 1 /\ start1 > b.end
                                     THEN start1 ELSE b.end]
        upper == IF crosses THEN shl(b2.words[1], (count - b2.start) % W) ELSE {}
    IN  [sys |-> b2,
         ret |-> (lower \cup upper) \cap mask,
         overflow |-> (W - count >= W) \/ (crosses /\ count - b2.start >= W)]

\* The part of delete that BitString::delete of both variants share: the
\* returned record holds the buffer after the call (without the update of
\* len), the returned word and whether a shift overflowed.
delete_bits(b, count) ==
    LET mask == shr(MAX, (W - count) % W)
        lower == shr(b.words[1], b.start)
        start1 == b.start + count
        crosses == start1 >= W
        start2 == start1 % W
        popped == Tail(b.words)
        b2 == IF ~crosses THEN [b EXCEPT !.start = start1]
              ELSE IF popped = << >>
                   THEN [b EXCEPT !.words = << {} >>, !.start = 0, !.end = 0]
              ELSE [b EXCEPT !.words = popped,
                             !.start = start2,
                             !.end = IF Len(popped) <= 1 /\ start2 > b.end
                                     THEN start2 ELSE b.end]
        upper == IF crosses THEN shl(b2.words[1], (count - b2.start) % W) ELSE {}
    IN  [sys |-> b2,
         ret |-> (lower \cup upper) \cap mask,
         overflow |-> (W - count >= W) \/ (crosses /\ count - b2.start >= W)]

\* delete with the bug of leaving `len` as it was
delete_len_unchanged(b, count) ==
    LET d == delete_bits(b, count)
    IN  [sys |-> d.sys, ret |-> d.ret, panic |-> debug /\ d.overflow]

\* BitString::delete(count), count <= W: the buffer after the call, the
\* returned word, and whether the call panics (a shift by W or len
\* underflowing, in a build with overflow checks)
delete(b, count) ==
    LET d == delete_bits(b, count)
        underflow == b.len >= 0 /\ b.len - count < 0
    IN  [sys |-> [d.sys EXCEPT !.len = @ - count],
         ret |-> d.ret,
         panic |-> debug /\ (d.overflow \/ underflow)]

\* BitString::as_list (the same code in both variants)
as_list(b) ==
    LET total == Len(b.words) * W
        flat == [i \in 1..total |-> ((i - 1) % W) \in b.words[((i - 1) \div W) + 1]]
        front == IF b.start < total THEN b.start ELSE total
        rest == total - front
        back == IF W - b.end < rest THEN W - b.end ELSE rest
    IN  SubSeq(flat, front + 1, total - back)

RECURSIVE eq_words(_, _, _, _, _)
\* The loop of eq over the zipped words from the i-th pair on, and the check
\* that follows it.
eq_words(self, other, offset, overflowed, i) ==
    LET overflow_mask == 0..(offset - 1) IN
    IF i > Len(self.words) \/ i > Len(other.words)
    THEN ~(/\ Len(other.words) > Len(self.words)
           /\ other.words[Len(other.words)] \cap overflow_mask # overflowed)
    ELSE LET rotated == rotate_left(self.words[i], offset) IN
         IF overflowed \cup (rotated \ overflow_mask) # other.words[i] THEN FALSE
         ELSE eq_words(self, other, offset, rotated \cap overflow_mask, i + 1)

\* BitString::eq, from `let offset` on: self.start <= other.start
eq_aligned(self, other) ==
    LET offset == other.start - self.start
        overflow_mask == 0..(offset - 1)
    IN  eq_words(self, other, offset, other.words[1] \cap overflow_mask, 1)

\* BitString::eq
eq(self, other) ==
    IF length(self) # length(other) THEN FALSE
    ELSE IF self.start > other.start THEN eq_aligned(other, self)
    ELSE eq_aligned(self, other)

RECURSIVE new_decompressed_from(_, _)
\* the loop of new_decompressed: `this` after appending the expansion of each
\* boolean of compressed.  (this.end is read at every turn, so that the
\* appends are evaluated one after the other, as the loop makes them, and not
\* as one nested expression.)
new_decompressed_from(this, compressed) ==
    IF this.end < W /\ compressed = << >> THEN this
    ELSE new_decompressed_from(
             append(this, IF Head(compressed) THEN {0} ELSE {}, 3),
             Tail(compressed))

\* BitString::new_decompressed
new_decompressed(compressed) == new_decompressed_from(new, compressed)

\* evolve with the bug of choosing the production by the second deleted symbol
evolve_second_symbol(b) ==
    IF ult(length(b), 3) THEN [sys |-> b, ret |-> "Break"]
    ELSE LET d == delete(b, 3) IN
         IF d.panic THEN [sys |-> b, ret |-> "Panic"]
         ELSE [sys |-> IF 1 \in d.ret
                       THEN append(d.sys, {0, 1, 3}, 4)
                       ELSE append(d.sys, {}, 2),
               ret |-> "Continue"]

\* evolve with the bug of halting at length 3 already
evolve_halts_at_3(b) ==
    IF ult(length(b), 4) THEN [sys |-> b, ret |-> "Break"]
    ELSE LET d == delete(b, 3) IN
         IF d.panic THEN [sys |-> b, ret |-> "Panic"]
         ELSE [sys |-> IF 0 \in d.ret
                       THEN append(d.sys, {0, 1, 3}, 4)
                       ELSE append(d.sys, {}, 2),
               ret |-> "Continue"]

\* BitString::evolve: the system after the call and what the call returns
\* ("Continue", "Break", or "Panic")
evolve(b) ==
    IF ult(length(b), 3) THEN [sys |-> b, ret |-> "Break"]
    ELSE LET d == delete(b, 3) IN
         IF d.panic THEN [sys |-> b, ret |-> "Panic"]
         ELSE [sys |-> IF 0 \in d.ret
                       THEN append(d.sys, {0, 1, 3}, 4)
                       ELSE append(d.sys, {}, 2),
               ret |-> "Continue"]

\* BitString::PREFERRED_TIMESTEP
PREFERRED_TIMESTEP == 11

RECURSIVE lut_entry_from(_, _, _, _, _)
\* The closure of LUT for `key` with T turns, from turn i on, with `bits` and
\* `len` as the turns before i left them: the u64 entry.
lut_entry_from(T, key, i, bits, len) ==
    IF i = T THEN bits \cup shl(ToWord(len), 48)
    ELSE IF i \in key
         THEN lut_entry_from(T, key, i + 1, bits \cup shl({0, 1, 3}, len), len + 4)
         ELSE lut_entry_from(T, key, i + 1, bits, len + 2)

\* LUT with the bug of reading the bits of the key from the highest down
LUT_key_reversed(key) ==
    lut_entry_from(PREFERRED_TIMESTEP, {PREFERRED_TIMESTEP - 1 - i : i \in key}, 0, {}, 0)

\* LUT[key], key a word below 2^PREFERRED_TIMESTEP
LUT(key) == lut_entry_from(PREFERRED_TIMESTEP, key, 0, {}, 0)

\* evolve_preferred with the bug of reading the key from every second bit
evolve_preferred_stride_2(b) ==
    IF debug /\ ult(length(b), 3 * PREFERRED_TIMESTEP) THEN [sys |-> b, ret |-> "Panic"]
    ELSE LET d == delete(b, 3 * PREFERRED_TIMESTEP)
             key == {i \in 0..(PREFERRED_TIMESTEP - 1) : (2 * i) \in d.ret}
             lut_entry == LUT(key)
             bits == lut_entry \cap 0..47
             len == ToNat(shr(lut_entry, 48) \cap 0..7)
         IN  IF d.panic THEN [sys |-> b, ret |-> "Panic"]
             ELSE [sys |-> append(d.sys, bits, len), ret |-> "Unit"]

\* BitString::evolve_preferred: the system after the call and "Unit", or
\* "Panic" (the debug assertion on the length, or a panic of delete)
evolve_preferred(b) ==
    IF debug /\ ult(length(b), 3 * PREFERRED_TIMESTEP) THEN [sys |-> b, ret |-> "Panic"]
    ELSE LET d == delete(b, 3 * PREFERRED_TIMESTEP)
             key == {i \in 0..(PREFERRED_TIMESTEP - 1) : (3 * i) \in d.ret}
             lut_entry == LUT(key)
             bits == lut_entry \cap 0..47
             len == ToNat(shr(lut_entry, 48) \cap 0..7)
         IN  IF d.panic THEN [sys |-> b, ret |-> "Panic"]
             ELSE [sys |-> append(d.sys, bits, len), ret |-> "Unit"]

-----------------------------------------------------------------------------
(* src/src/bitstring.rs: BitString without the cached length, with the      *)
(* trait's evolve_preferred                                                  *)

\* BitString::new
new_v1 == [words |-> << {} >>, start |-> 0, end |-> 0]

\* BitString::length: the value, negative when the subtraction wraps
length_v1(b) == (Len(b.words) - 1) * W + b.end - b.start

\* BitString::length panics: the subtraction overflows in a build with
\* overflow checks
length_panics_v1(b) == debug /\ length_v1(b) < 0

\* BitString::append(bits, count), count <= W
append_v1(b, bits, count) ==
    LET rotated == rotate_left(bits, b.end)
        lower_mask == shl(MAX, b.end)
        upper_mask == not(lower_mask)
        back == Len(b.words)
        words1 == [b.words EXCEPT ![back] = @ \cup (rotated \cap lower_mask)]
        end1 == b.end + count
    IN  IF end1 >= W
        THEN [b EXCEPT !.words = Append(words1, rotated \cap upper_mask),
                       !.end = end1 % W]
        ELSE [b EXCEPT !.words = words1, !.end = end1]

\* BitString::delete(count), count <= W
delete_v1(b, count) ==
    LET d == delete_bits(b, count)
    IN  [sys |-> d.sys, ret |-> d.ret, panic |-> debug /\ d.overflow]

RECURSIVE new_decompressed_from_v1(_, _)
\* the loop of new_decompressed (this.end is read at every turn, so that the
\* appends are evaluated one after the other)
new_decompressed_from_v1(this, compressed) ==
    IF this.end < W /\ compressed = << >> THEN this
    ELSE new_decompressed_from_v1(
             append_v1(this, IF Head(compressed) THEN {0} ELSE {}, 3),
             Tail(compressed))

\* BitString::new_decompressed
new_decompressed_v1(compressed) == new_decompressed_from_v1(new_v1, compressed)

\* BitString::evolve
evolve_v1(b) ==
    IF length_panics_v1(b) THEN [sys |-> b, ret |-> "Panic"]
    ELSE IF ult(length_v1(b), 3) THEN [sys |-> b, ret |-> "Break"]
    ELSE LET d == delete_v1(b, 3) IN
         IF d.panic THEN [sys |-> b, ret |-> "Panic"]
         ELSE [sys |-> IF 0 \in d.ret
                       THEN append_v1(d.sys, {0, 1, 3}, 4)
                       ELSE append_v1(d.sys, {}, 2),
               ret |-> "Continue"]

\* BitString::PREFERRED_TIMESTEP
PREFERRED_TIMESTEP_v1 == 10

\* LUT[key], key a word below 2^PREFERRED_TIMESTEP
LUT_v1(key) == lut_entry_from(PREFERRED_TIMESTEP_v1, key, 0, {}, 0)

\* The tail of evolve_preferred: the batched delete, the key, the table
\* entry and the append.  `applied` counts the single steps made before;
\* `unguarded` tells whether the batched delete was executed on a length
\* below 3 * PREFERRED_TIMESTEP.
evolve_preferred_batch_v1(b, applied) ==
    LET d == delete_v1(b, 3 * PREFERRED_TIMESTEP_v1)
        key == {i \in 0..(PREFERRED_TIMESTEP_v1 - 1) : (3 * i) \in d.ret}
        lut_entry == LUT_v1(key)
        bits == lut_entry \cap 0..47
        len == ToNat(shr(lut_entry, 48) \cap 0..7)
        short == ult(length_v1(b), 3 * PREFERRED_TIMESTEP_v1)
    IN  IF d.panic THEN [sys |-> b, ret |-> "Panic", k |-> 0, applied |-> applied,
                         unguarded |-> short]
        ELSE [sys |-> append_v1(d.sys, bits, len), ret |-> "Continue", k |-> 0,
              applied |-> applied + PREFERRED_TIMESTEP_v1, unguarded |-> short]

RECURSIVE evolve_preferred_loop_v1(_, _, _)
\* The loop `for i in 1..=last` of evolve_preferred from turn i on, and what
\* follows it.
evolve_preferred_loop_v1(b, i, last) ==
    IF i > last THEN evolve_preferred_batch_v1(b, last)
    ELSE CHOOSE out \in
         { IF e.ret = "Panic"
           THEN [sys |-> b, ret |-> "Panic", k |-> 0, applied |-> i - 1,
                 unguarded |-> FALSE]
           ELSE IF e.ret = "Break"
                THEN [sys |-> e.sys, ret |-> "Break", k |-> i, applied |-> i - 1,
                      unguarded |-> FALSE]
           ELSE evolve_preferred_loop_v1(e.sys, i + 1, last)
           : e \in {evolve_v1(b)} } : TRUE

\* BitString::evolve_preferred: the system after the call, what the call
\* returns ("Continue", "Break" with k, or "Panic") and the number of steps
\* applied (a batch counts PREFERRED_TIMESTEP)
evolve_preferred_v1(b) ==
    IF length_panics_v1(b)
    THEN [sys |-> b, ret |-> "Panic", k |-> 0, applied |-> 0, unguarded |-> FALSE]
    ELSE IF ult(length_v1(b), 3 * PREFERRED_TIMESTEP_v1)
         THEN evolve_preferred_loop_v1(b, 1, length_v1(b))
    ELSE evolve_preferred_batch_v1(b, 0)

-----------------------------------------------------------------------------
(* src/src/vec_deque_bools.rs: VecDequeBools *)

RECURSIVE vdb_new_decompressed(_)
\* VecDequeBools::new_decompressed
vdb_new_decompressed(compressed) ==
    IF compressed = << >> THEN << >>
    ELSE << Head(compressed), FALSE, FALSE >> \o vdb_new_decompressed(Tail(compressed))

\* VecDequeBools::length
vdb_length(s) == Len(s)

\* VecDequeBools::as_list
vdb_as_list(s) == s

\* pop_front_or_break
pop_front_or_break(deque) ==
    IF deque = << >> THEN [deque |-> deque, ret |-> "Break", x |-> FALSE]
    ELSE [deque |-> Tail(deque), ret |-> "Continue", x |-> Head(deque)]

\* VecDequeBools::evolve
vdb_evolve(s) ==
    LET p1 == pop_front_or_break(s)
        p2 == pop_front_or_break(p1.deque)
        p3 == pop_front_or_break(p2.deque)
    IN  IF p1.ret = "Break" THEN [sys |-> p1.deque, ret |-> "Break"]
        ELSE IF p2.ret = "Break" THEN [sys |-> p2.deque, ret |-> "Break"]
        ELSE IF p3.ret = "Break" THEN [sys |-> p3.deque, ret |-> "Break"]
        ELSE [sys |-> p3.deque \o (IF p1.x THEN << TRUE, TRUE, FALSE, TRUE >>
                                           ELSE << FALSE, FALSE >>),
              ret |-> "Continue"]

-----------------------------------------------------------------------------
(* src/src/lib.rs: the default methods of PostSystem, for VecDequeBools     *)
(* (which overrides none) and for the BitString of src/src/bitstring.rs     *)
(* (which overrides PREFERRED_TIMESTEP and evolve_preferred)                *)

\* PostSystem::PREFERRED_TIMESTEP
vdb_PREFERRED_TIMESTEP == 1

\* In the loops of this module, `CHOOSE out \in { .. : e \in {call} } : TRUE` is the
\* value of the body with e bound to the result of the call: the call is
\* evaluated once per turn.

RECURSIVE vdb_evolve_preferred_loop(_, _)
\* the loop of PostSystem::evolve_preferred from turn i on
vdb_evolve_preferred_loop(s, i) ==
    IF i > vdb_PREFERRED_TIMESTEP
    THEN [sys |-> s, ret |-> "Continue", k |-> 0, applied |-> i - 1]
    ELSE CHOOSE out \in
         { IF e.ret = "Break"
           THEN [sys |-> e.sys, ret |-> "Break", k |-> i, applied |-> i - 1]
           ELSE vdb_evolve_preferred_loop(e.sys, i + 1)
           : e \in {vdb_evolve(s)} } : TRUE

\* PostSystem::evolve_preferred on a VecDequeBools
vdb_evolve_preferred(s) == vdb_evolve_preferred_loop(s, 1)

RECURSIVE vdb_evolve_multi_rest(_, _, _, _, _)
\* the second loop of PostSystem::evolve_multi, `for j in 1..=r`, from turn j
vdb_evolve_multi_rest(s, q, r, j, applied) ==
    IF j > r THEN [sys |-> s, ret |-> "Continue", k |-> 0, applied |-> applied]
    ELSE CHOOSE out \in
         { IF e.ret = "Break"
           THEN [sys |-> e.sys, ret |-> "Break",
                 k |-> q * vdb_PREFERRED_TIMESTEP + j, applied |-> applied]
           ELSE vdb_evolve_multi_rest(e.sys, q, r, j + 1, applied + 1)
           : e \in {vdb_evolve(s)} } : TRUE

RECURSIVE vdb_evolve_multi_batches(_, _, _, _, _)
\* the first loop of PostSystem::evolve_multi, `for i in 0..q`, from turn i
vdb_evolve_multi_batches(s, q, r, i, applied) ==
    IF i >= q THEN vdb_evolve_multi_rest(s, q, r, 1, applied)
    ELSE CHOOSE out \in
         { IF p.ret = "Break"
           THEN [sys |-> p.sys, ret |-> "Break",
                 k |-> i * vdb_PREFERRED_TIMESTEP + p.k, applied |-> applied + p.applied]
           ELSE vdb_evolve_multi_batches(p.sys, q, r, i + 1, applied + p.applied)
           : p \in {vdb_evolve_preferred(s)} } : TRUE

\* PostSystem::evolve_multi(n) on a VecDequeBools
vdb_evolve_multi(s, n) ==
    vdb_evolve_multi_batches(s, n \div vdb_PREFERRED_TIMESTEP,
                             n % vdb_PREFERRED_TIMESTEP, 0, 0)

RECURSIVE evolve_multi_rest_v1(_, _, _, _, _)
\* the second loop of PostSystem::evolve_multi, `for j in 1..=r`, from turn j
evolve_multi_rest_v1(b, q, r, j, applied) ==
    IF j > r THEN [sys |-> b, ret |-> "Continue", k |-> 0, applied |-> applied,
                   unguarded |-> FALSE]
    ELSE CHOOSE out \in
         { IF e.ret = "Panic"
           THEN [sys |-> b, ret |-> "Panic", k |-> 0, applied |-> applied,
                 unguarded |-> FALSE]
           ELSE IF e.ret = "Break"
                THEN [sys |-> e.sys, ret |-> "Break",
                      k |-> q * PREFERRED_TIMESTEP_v1 + j, applied |-> applied,
                      unguarded |-> FALSE]
           ELSE evolve_multi_rest_v1(e.sys, q, r, j + 1, applied + 1)
           : e \in {evolve_v1(b)} } : TRUE

RECURSIVE evolve_multi_batches_v1(_, _, _, _, _)
\* the first loop of PostSystem::evolve_multi, `for i in 0..q`, from turn i
\* (`unguarded`: one of the evolve_preferred calls executed its batched
\* delete on a length below 3 * PREFERRED_TIMESTEP)
evolve_multi_batches_v1(b, q, r, i, applied) ==
    IF i >= q THEN evolve_multi_rest_v1(b, q, r, 1, applied)
    ELSE CHOOSE out \in
         { IF p.ret = "Panic"
           THEN [sys |-> b, ret |-> "Panic", k |-> 0, applied |-> applied + p.applied,
                 unguarded |-> p.unguarded]
           ELSE IF p.ret = "Break"
                THEN [sys |-> p.sys, ret |-> "Break",
                      k |-> i * PREFERRED_TIMESTEP_v1 + p.k,
                      applied |-> applied + p.applied,
                      unguarded |-> p.unguarded]
           ELSE [evolve_multi_batches_v1(p.sys, q, r, i + 1, applied + p.applied)
                    EXCEPT !.unguarded = @ \/ p.unguarded]
           : p \in {evolve_preferred_v1(b)} } : TRUE

\* PostSystem::evolve_multi(n) on a BitString of src/src/bitstring.rs
evolve_multi_v1(b, n) ==
    evolve_multi_batches_v1(b, n \div PREFERRED_TIMESTEP_v1,
                            n % PREFERRED_TIMESTEP_v1, 0, 0)

-----------------------------------------------------------------------------
(* Compressed inputs *)

\* the input of the benchmarks
Bench5854 == << TRUE, FALSE, TRUE, TRUE, FALSE, TRUE, TRUE, FALSE, TRUE, TRUE,
                TRUE, TRUE, FALSE >>

Patterns == { << TRUE >>, << FALSE >>, << TRUE, FALSE >>, << TRUE, TRUE, FALSE >>,
              Bench5854 }

\* the first k booleans of the periodic repetition of p
Repeat(p, k) == [i \in 1..k |-> p[((i - 1) % Len(p)) + 1]]

BoolLists(k) == UNION {[1..j -> BOOLEAN] : j \in 0..k}

Inputs == BoolLists(MaxShort) \cup {Repeat(p, k) : p \in Patterns, k \in 0..MaxPattern}

InputsMulti ==
    BoolLists(MaxShort) \cup {Repeat(p, k) : p \in Patterns, k \in 0..MaxMultiPattern}

-----------------------------------------------------------------------------
(* Spec: a VecDequeBools and a BitString (system/bitstring.rs) built from   *)
(* the same input and evolved one step at a time, side by side, as the      *)
(* crate's tests do.                                                        *)

NoOut == [k |-> 0, applied |-> 0]

Init ==
    /\ debug \in BOOLEAN
    /\ op = "new"
    /\ input = << >>
    /\ vdb = << >>
    /\ bs = new
    /\ bs2 = new
    /\ bs3 = new
    /\ vdb_pre = << >>
    /\ bs_pre = new
    /\ bs2_pre = new
    /\ vdb_ret = "None"
    /\ bs_ret = "None"
    /\ vdb_out = NoOut
    /\ bs_out = NoOut
    /\ arg = 0
    /\ steps = 0

NewDecompressed ==
    /\ op = "new"
    /\ \E compressed \in Inputs :
        /\ input' = compressed
        /\ vdb' = vdb_new_decompressed(compressed)
        /\ bs' = new_decompressed(compressed)
    /\ op' = "new_decompressed"
    /\ vdb_pre' = vdb
    /\ bs_pre' = bs
    /\ UNCHANGED <<debug, bs3, bs2, bs2_pre, vdb_ret, bs_ret, vdb_out, bs_out, arg, steps>>

Evolve ==
    /\ op \in {"new_decompressed", "evolve"}
    /\ bs_ret # "Panic"
    /\ steps < MaxSteps
    /\ op' = "evolve"
    /\ vdb_pre' = vdb
    /\ bs_pre' = bs
    /\ vdb' = vdb_evolve(vdb).sys
    /\ vdb_ret' = vdb_evolve(vdb).ret
    /\ bs' = evolve(bs).sys
    /\ bs_ret' = evolve(bs).ret
    /\ steps' = steps + 1
    /\ UNCHANGED <<debug, bs3, input, bs2, bs2_pre, vdb_out, bs_out, arg>>

Next == NewDecompressed \/ Evolve

Spec == Init /\ [][Next]_vars

-----------------------------------------------------------------------------
(* SpecBatch: a BitString (system/bitstring.rs) evolved by single steps and  *)
(* by batches of PREFERRED_TIMESTEP steps, in any order.  evolve_preferred   *)
(* is called where its assertion on the length holds.                        *)

BsEvolve ==
    /\ op \in {"new_decompressed", "evolve", "evolve_preferred"}
    /\ bs_ret # "Panic"
    /\ steps < MaxBatchSteps
    /\ op' = "evolve"
    /\ bs_pre' = bs
    /\ bs' = evolve(bs).sys
    /\ bs_ret' = evolve(bs).ret
    /\ steps' = steps + 1
    /\ UNCHANGED <<debug, bs3, input, vdb, vdb_pre, vdb_ret, bs2, bs2_pre, vdb_out, bs_out, arg>>

BsEvolvePreferred ==
    /\ op \in {"new_decompressed", "evolve", "evolve_preferred"}
    /\ bs_ret # "Panic"
    /\ arg < MaxBatches
    /\ ~ult(length(bs), 3 * PREFERRED_TIMESTEP)
    /\ op' = "evolve_preferred"
    /\ bs_pre' = bs
    /\ bs' = evolve_preferred(bs).sys
    /\ bs_ret' = evolve_preferred(bs).ret
    /\ arg' = arg + 1
    /\ UNCHANGED <<debug, bs3, input, vdb, vdb_pre, vdb_ret, bs2, bs2_pre, vdb_out, bs_out, steps>>

NextBatch == NewDecompressed \/ BsEvolve \/ BsEvolvePreferred

SpecBatch == Init /\ [][NextBatch]_vars

-----------------------------------------------------------------------------
(* SpecMulti: a VecDequeBools and a BitString (src/src/bitstring.rs) built   *)
(* from the same input; evolve_multi(n) is called on both.                   *)

InitMulti ==
    /\ debug \in BOOLEAN
    /\ op = "new"
    /\ input = << >>
    /\ vdb = << >>
    /\ bs = new_v1
    /\ bs2 = new_v1
    /\ bs3 = new
    /\ vdb_pre = << >>
    /\ bs_pre = new_v1
    /\ bs2_pre = new_v1
    /\ vdb_ret = "None"
    /\ bs_ret = "None"
    /\ vdb_out = NoOut
    /\ bs_out = NoOut
    /\ arg = 0
    /\ steps = 0

NewDecompressedV1 ==
    /\ op = "new"
    /\ \E compressed \in InputsMulti :
        /\ input' = compressed
        /\ vdb' = vdb_new_decompressed(compressed)
        /\ bs' = new_decompressed_v1(compressed)
    /\ op' = "new_decompressed"
    /\ vdb_pre' = vdb
    /\ bs_pre' = bs
    /\ UNCHANGED <<debug, bs3, bs2, bs2_pre, vdb_ret, bs_ret, vdb_out, bs_out, arg, steps>>

EvolveMulti ==
    /\ op \in {"new_decompressed", "evolve_multi"}
    /\ bs_ret # "Panic"
    /\ steps < MaxCalls
    /\ \E n \in 0..MaxN :
        LET v == vdb_evolve_multi(vdb, n)
            b == evolve_multi_v1(bs, n)
        IN  /\ arg' = n
            /\ vdb' = v.sys
            /\ vdb_ret' = v.ret
            /\ vdb_out' = [k |-> v.k, applied |-> v.applied]
            /\ bs' = b.sys
            /\ bs_ret' = b.ret
            /\ bs_out' = [k |-> b.k, applied |-> b.applied, unguarded |-> b.unguarded]
    /\ op' = "evolve_multi"
    /\ vdb_pre' = vdb
    /\ bs_pre' = bs
    /\ steps' = steps + 1
    /\ UNCHANGED <<debug, bs3, input, bs2, bs2_pre>>

NextMulti == NewDecompressedV1 \/ EvolveMulti

SpecMulti == InitMulti /\ [][NextMulti]_vars

-----------------------------------------------------------------------------
(* SpecBuf: two BitStrings (system/bitstring.rs), each built from new() by  *)
(* append and delete calls that keep to the documented use (append: no bit  *)
(* of `bits` at or above `count`; delete: count at most the length), then   *)
(* compared.  The calls on bs2 follow those on bs.                          *)

\* the (bits, count) appended
AppendArgs == { << {0}, 1 >>, << {0, 1}, 2 >>, << {1}, 2 >>, << {}, W - 1 >>,
                << MAX, W >> }

\* the counts deleted
DeleteCounts == {1, W - 2}

InitBuf ==
    /\ debug \in BOOLEAN
    /\ op = "new"
    /\ input = << >>
    /\ vdb = << >>
    /\ bs = new
    /\ bs2 = new
    /\ bs3 = new
    /\ vdb_pre = << >>
    /\ bs_pre = new
    /\ bs2_pre = new
    /\ vdb_ret = "None"
    /\ bs_ret = "None"
    /\ vdb_out = NoOut
    /\ bs_out = NoOut
    /\ arg = << >>
    /\ steps = 0

BufAppend ==
    /\ op \in {"new", "append", "delete"}
    /\ steps < MaxBufOps
    /\ \E a \in AppendArgs :
        /\ arg' = a
        /\ bs' = append(bs, a[1], a[2])
    /\ op' = "append"
    /\ bs_pre' = bs
    /\ bs_ret' = "Unit"
    /\ steps' = steps + 1
    /\ UNCHANGED <<debug, bs3, input, vdb, vdb_pre, vdb_ret, vdb_out, bs_out, bs2, bs2_pre>>

BufDelete ==
    /\ op \in {"new", "append", "delete"}
    /\ steps < MaxBufOps
    /\ \E count \in DeleteCounts :
        /\ ~ult(length(bs), count)
        /\ arg' = << count >>
        /\ bs' = delete(bs, count).sys
        /\ bs_out' = [k |-> delete(bs, count).ret, applied |-> 0]
    /\ op' = "delete"
    /\ bs_pre' = bs
    /\ bs_ret' = "Word"
    /\ steps' = steps + 1
    /\ UNCHANGED <<debug, bs3, input, vdb, vdb_pre, vdb_ret, vdb_out, bs2, bs2_pre>>

Buf2Append ==
    /\ op \in {"new", "append", "delete", "append2", "delete2"}
    /\ steps < MaxBufOps
    /\ \E a \in AppendArgs :
        /\ arg' = a
        /\ bs2' = append(bs2, a[1], a[2])
    /\ op' = "append2"
    /\ bs2_pre' = bs2
    /\ bs_ret' = "Unit"
    /\ steps' = steps + 1
    /\ UNCHANGED <<debug, bs3, input, vdb, vdb_pre, vdb_ret, vdb_out, bs_out, bs, bs_pre>>

Buf2Delete ==
    /\ op \in {"new", "append", "delete", "append2", "delete2"}
    /\ steps < MaxBufOps
    /\ \E count \in DeleteCounts :
        /\ ~ult(length(bs2), count)
        /\ arg' = << count >>
        /\ bs2' = delete(bs2, count).sys
        /\ bs_out' = [k |-> delete(bs2, count).ret, applied |-> 0]
    /\ op' = "delete2"
    /\ bs2_pre' = bs2
    /\ bs_ret' = "Word"
    /\ steps' = steps + 1
    /\ UNCHANGED <<debug, bs3, input, vdb, vdb_pre, vdb_ret, vdb_out, bs, bs_pre>>

BufEq ==
    /\ op \in {"new", "append", "delete", "append2", "delete2"}
    /\ op' = "eq"
    /\ bs_ret' = IF eq(bs, bs2) THEN "true" ELSE "false"
    /\ UNCHANGED <<debug, bs3, input, vdb, vdb_pre, vdb_ret, vdb_out, bs_out, bs, bs_pre,
                   bs2, bs2_pre, arg, steps>>

NextBuf == BufAppend \/ BufDelete \/ Buf2Append \/ Buf2Delete \/ BufEq

SpecBuf == InitBuf /\ [][NextBuf]_vars

-----------------------------------------------------------------------------
(* SpecOver: one BitString built from new() by append and delete calls with  *)
(* any count the documentation of the two methods allows: append with        *)
(* count <= W and no bit of `bits` at or above count, delete with count < W, *)
(* counts of 0 and counts above the current length included.  A run works   *)
(* on the BitString of system/bitstring.rs (bs) or on the one of             *)
(* src/src/bitstring.rs (bs2).  A call that panics ends the run.             *)

\* the (bits, count) appended
OverAppendArgs == { << {}, 0 >>, << {0}, 1 >>, << {1}, 2 >>, << 0..(W - 2), W - 1 >>,
                    << MAX, W >> }

\* the counts deleted
OverDeleteCounts == {0, 1, 2, W - 2, W - 1}

InitOver ==
    /\ debug \in BOOLEAN
    /\ op = "new"
    /\ input = << >>
    /\ vdb = << >>
    /\ bs = new
    /\ bs2 = new_v1
    /\ bs3 = new
    /\ vdb_pre = << >>
    /\ bs_pre = new
    /\ bs2_pre = new_v1
    /\ vdb_ret = "None"
    /\ bs_ret = "None"
    /\ vdb_out = NoOut
    /\ bs_out = NoOut
    /\ arg = << >>
    /\ steps = 0

OverAppend ==
    /\ op \in {"new", "append", "delete"}
    /\ bs_ret # "Panic"
    /\ steps < MaxOverOps
    /\ \E a \in OverAppendArgs :
        /\ arg' = a
        /\ bs' = append(bs, a[1], a[2])
    /\ op' = "append"
    /\ bs_pre' = bs
    /\ bs_ret' = "Unit"
    /\ steps' = steps + 1
    /\ UNCHANGED <<debug, bs3, input, vdb, vdb_pre, vdb_ret, vdb_out, bs_out, bs2, bs2_pre>>

OverDelete ==
    /\ op \in {"new", "append", "delete"}
    /\ bs_ret # "Panic"
    /\ steps < MaxOverOps
    /\ \E count \in OverDeleteCounts :
        LET d == delete(bs, count) IN
        /\ arg' = << count >>
        /\ bs' = IF d.panic THEN bs ELSE d.sys
        /\ bs_ret' = IF d.panic THEN "Panic" ELSE "Word"
        /\ bs_out' = [k |-> d.ret, applied |-> 0]
    /\ op' = "delete"
    /\ bs_pre' = bs
    /\ steps' = steps + 1
    /\ UNCHANGED <<debug, bs3, input, vdb, vdb_pre, vdb_ret, vdb_out, bs2, bs2_pre>>

OverAppendV1 ==
    /\ op \in {"new", "append_v1", "delete_v1"}
    /\ bs_ret # "Panic"
    /\ steps < MaxOverOps
    /\ \E a \in OverAppendArgs :
        /\ arg' = a
        /\ bs2' = append_v1(bs2, a[1], a[2])
    /\ op' = "append_v1"
    /\ bs2_pre' = bs2
    /\ bs_ret' = "Unit"
    /\ steps' = steps + 1
    /\ UNCHANGED <<debug, bs3, input, vdb, vdb_pre, vdb_ret, vdb_out, bs_out, bs, bs_pre>>

OverDeleteV1 ==
    /\ op \in {"new", "append_v1", "delete_v1"}
    /\ bs_ret # "Panic"
    /\ steps < MaxOverOps
    /\ \E count \in OverDeleteCounts :
        LET d == delete_v1(bs2, count) IN
        /\ arg' = << count >>
        /\ bs2' = IF d.panic THEN bs2 ELSE d.sys
        /\ bs_ret' = IF d.panic THEN "Panic" ELSE "Word"
        /\ bs_out' = [k |-> d.ret, applied |-> 0]
    /\ op' = "delete_v1"
    /\ bs2_pre' = bs2
    /\ steps' = steps + 1
    /\ UNCHANGED <<debug, bs3, input, vdb, vdb_pre, vdb_ret, vdb_out, bs, bs_pre>>

NextOver == OverAppend \/ OverDelete \/ OverAppendV1 \/ OverDeleteV1

SpecOver == InitOver /\ [][NextOver]_vars

-----------------------------------------------------------------------------
(* SpecOps: one BitString (system/bitstring.rs), built by new() or           *)
(* new_decompressed, on which append, delete, evolve and evolve_preferred    *)
(* are called within their requirements: append with count <= W and no bit  *)
(* of `bits` at or above count, delete with count at most the length,       *)
(* evolve_preferred where its assertion on the length holds.  A call that   *)
(* panics ends the run.                                                      *)

\* the compressed inputs
OpsInputs == { Repeat(p, k) : p \in { << TRUE >>, << TRUE, FALSE >> },
                              k \in {0, 1, 11, 21, 22} }

\* the (bits, count) appended
OpsAppendArgs == { << {}, 0 >>, << {0}, 1 >>, << {0, 1, 3}, 4 >>, << MAX, W >> }

\* the counts deleted
OpsDeleteCounts == {0, 3, W - 1}

OpsNewDecompressed ==
    /\ op = "new"
    /\ \E compressed \in OpsInputs :
        /\ input' = compressed
        /\ bs' = new_decompressed(compressed)
    /\ op' = "new_decompressed"
    /\ bs_pre' = bs
    /\ UNCHANGED <<debug, bs3, vdb, vdb_pre, bs2, bs2_pre, vdb_ret, bs_ret, vdb_out,
                   bs_out, arg, steps>>

OpsAppend ==
    /\ bs_ret # "Panic"
    /\ steps < MaxOps
    /\ \E a \in OpsAppendArgs :
        /\ arg' = a
        /\ bs' = append(bs, a[1], a[2])
    /\ op' = "append"
    /\ bs_pre' = bs
    /\ bs_ret' = "Unit"
    /\ steps' = steps + 1
    /\ UNCHANGED <<debug, bs3, input, vdb, vdb_pre, vdb_ret, vdb_out, bs_out, bs2, bs2_pre>>

OpsDelete ==
    /\ bs_ret # "Panic"
    /\ steps < MaxOps
    /\ \E count \in OpsDeleteCounts :
        LET d == delete(bs, count) IN
        /\ ~ult(length(bs), count)
        /\ arg' = << count >>
        /\ bs' = IF d.panic THEN bs ELSE d.sys
        /\ bs_ret' = IF d.panic THEN "Panic" ELSE "Word"
        /\ bs_out' = [k |-> d.ret, applied |-> 0]
    /\ op' = "delete"
    /\ bs_pre' = bs
    /\ steps' = steps + 1
    /\ UNCHANGED <<debug, bs3, input, vdb, vdb_pre, vdb_ret, vdb_out, bs2, bs2_pre>>

OpsEvolve ==
    /\ bs_ret # "Panic"
    /\ steps < MaxOps
    /\ op' = "evolve"
    /\ arg' = << >>
    /\ bs_pre' = bs
    /\ bs' = evolve(bs).sys
    /\ bs_ret' = evolve(bs).ret
    /\ steps' = steps + 1
    /\ UNCHANGED <<debug, bs3, input, vdb, vdb_pre, vdb_ret, bs2, bs2_pre, vdb_out, bs_out>>

OpsEvolvePreferred ==
    /\ bs_ret # "Panic"
    /\ steps < MaxOps
    /\ ~ult(length(bs), 3 * PREFERRED_TIMESTEP)
    /\ op' = "evolve_preferred"
    /\ arg' = << >>
    /\ bs_pre' = bs
    /\ bs' = evolve_preferred(bs).sys
    /\ bs_ret' = evolve_preferred(bs).ret
    /\ steps' = steps + 1
    /\ UNCHANGED <<debug, bs3, input, vdb, vdb_pre, vdb_ret, bs2, bs2_pre, vdb_out, bs_out>>

NextOps == OpsNewDecompressed \/ OpsAppend \/ OpsDelete \/ OpsEvolve \/ OpsEvolvePreferred

SpecOps == InitBuf /\ [][NextOps]_vars

-----------------------------------------------------------------------------
(* SpecLut: the lookup tables of the two BitString variants, read at every  *)
(* key, as evolve_preferred reads them                                      *)

LutLookup ==
    /\ op = "new"
    /\ \E key \in SUBSET (0..(PREFERRED_TIMESTEP - 1)) :
        /\ arg' = key
        /\ bs_out' = [k |-> LUT(key), applied |-> 0]
    /\ op' = "lut"
    /\ UNCHANGED <<debug, bs3, input, vdb, vdb_pre, vdb_ret, vdb_out, bs, bs_pre, bs2,
                   bs2_pre, bs_ret, steps>>

LutLookupV1 ==
    /\ op = "new"
    /\ \E key \in SUBSET (0..(PREFERRED_TIMESTEP_v1 - 1)) :
        /\ arg' = key
        /\ bs_out' = [k |-> LUT_v1(key), applied |-> 0]
    /\ op' = "lut_v1"
    /\ UNCHANGED <<debug, bs3, input, vdb, vdb_pre, vdb_ret, vdb_out, bs, bs_pre, bs2,
                   bs2_pre, bs_ret, steps>>

NextLut == LutLookup \/ LutLookupV1

SpecLut == InitBuf /\ [][NextLut]_vars

-----------------------------------------------------------------------------
(* SpecEq3: three BitStrings (system/bitstring.rs), built one after the     *)
(* other from new() by at most MaxEqOps append and delete calls each        *)
(* (delete with count at most the length), then compared with each other.   *)

\* the (bits, count) appended
EqAppendArgs == { << {0}, 1 >>, << {}, 1 >>, << MAX, W >> }

\* the counts deleted
EqDeleteCounts == {1}

Eq1Append ==
    /\ op \in {"new"} \cup {"append", "delete"}
    /\ op \in {"append", "delete"} => steps < MaxEqOps
    /\ \E a \in EqAppendArgs :
        /\ arg' = a
        /\ bs' = append(bs, a[1], a[2])
    /\ bs_ret' = "Unit"
    /\ UNCHANGED bs_out
    /\ op' = "append"
    /\ bs_pre' = bs
    /\ steps' = IF op \in {"append", "delete"} THEN steps + 1 ELSE 1
    /\ UNCHANGED <<debug, input, vdb, vdb_pre, vdb_ret, vdb_out, bs2, bs2_pre, bs3>>

Eq1Delete ==
    /\ op \in {"new"} \cup {"append", "delete"}
    /\ op \in {"append", "delete"} => steps < MaxEqOps
    /\ \E count \in EqDeleteCounts :
        /\ ~ult(length(bs), count)
        /\ arg' = << count >>
        /\ bs' = delete(bs, count).sys
        /\ bs_out' = [k |-> delete(bs, count).ret, applied |-> 0]
    /\ bs_ret' = "Word"
    /\ op' = "delete"
    /\ bs_pre' = bs
    /\ steps' = IF op \in {"append", "delete"} THEN steps + 1 ELSE 1
    /\ UNCHANGED <<debug, input, vdb, vdb_pre, vdb_ret, vdb_out, bs2, bs2_pre, bs3>>

Eq2Append ==
    /\ op \in {"new", "append", "delete"} \cup {"append2", "delete2"}
    /\ op \in {"append2", "delete2"} => steps < MaxEqOps
    /\ \E a \in EqAppendArgs :
        /\ arg' = a
        /\ bs2' = append(bs2, a[1], a[2])
    /\ bs_ret' = "Unit"
    /\ UNCHANGED bs_out
    /\ op' = "append2"
    /\ bs2_pre' = bs2
    /\ steps' = IF op \in {"append2", "delete2"} THEN steps + 1 ELSE 1
    /\ UNCHANGED <<debug, input, vdb, vdb_pre, vdb_ret, vdb_out, bs, bs_pre, bs3>>

Eq2Delete ==
    /\ op \in {"new", "append", "delete"} \cup {"append2", "delete2"}
    /\ op \in {"append2", "delete2"} => steps < MaxEqOps
    /\ \E count \in EqDeleteCounts :
        /\ ~ult(length(bs2), count)
        /\ arg' = << count >>
        /\ bs2' = delete(bs2, count).sys
        /\ bs_out' = [k |-> delete(bs2, count).ret, applied |-> 0]
    /\ bs_ret' = "Word"
    /\ op' = "delete2"
    /\ bs2_pre' = bs2
    /\ steps' = IF op \in {"append2", "delete2"} THEN steps + 1 ELSE 1
    /\ UNCHANGED <<debug, input, vdb, vdb_pre, vdb_ret, vdb_out, bs, bs_pre, bs3>>

Eq3Append ==
    /\ op \in {"new", "append", "delete", "append2", "delete2"} \cup {"append3", "delete3"}
    /\ op \in {"append3", "delete3"} => steps < MaxEqOps
    /\ \E a \in EqAppendArgs :
        /\ arg' = a
        /\ bs3' = append(bs3, a[1], a[2])
    /\ bs_ret' = "Unit"
    /\ UNCHANGED bs_out
    /\ op' = "append3"
    /\ steps' = IF op \in {"append3", "delete3"} THEN steps + 1 ELSE 1
    /\ UNCHANGED <<debug, input, vdb, vdb_pre, vdb_ret, vdb_out, bs, bs_pre, bs2, bs2_pre>>

Eq3Delete ==
    /\ op \in {"new", "append", "delete", "append2", "delete2"} \cup {"append3", "delete3"}
    /\ op \in {"append3", "delete3"} => steps < MaxEqOps
    /\ \E count \in EqDeleteCounts :
        /\ ~ult(length(bs3), count)
        /\ arg' = << count >>
        /\ bs3' = delete(bs3, count).sys
        /\ bs_out' = [k |-> delete(bs3, count).ret, applied |-> 0]
    /\ bs_ret' = "Word"
    /\ op' = "delete3"
    /\ steps' = IF op \in {"append3", "delete3"} THEN steps + 1 ELSE 1
    /\ UNCHANGED <<debug, input, vdb, vdb_pre, vdb_ret, vdb_out, bs, bs_pre, bs2, bs2_pre>>

Eq3 ==
    /\ op # "eq3"
    /\ op' = "eq3"
    /\ bs_out' = [aa |-> eq(bs, bs), ab |-> eq(bs, bs2), ba |-> eq(bs2, bs),
                  bc |-> eq(bs2, bs3), ac |-> eq(bs, bs3)]
    /\ bs_ret' = "Bools"
    /\ UNCHANGED <<debug, input, vdb, vdb_pre, vdb_ret, vdb_out, bs, bs_pre, bs2, bs2_pre,
                   bs3, arg, steps>>

NextEq3 ==
    \/ Eq1Append \/ Eq1Delete \/ Eq2Append \/ Eq2Delete \/ Eq3Append \/ Eq3Delete
    \/ Eq3

SpecEq3 == InitBuf /\ [][NextEq3]_vars

-----------------------------------------------------------------------------
(* SpecEqOver: two BitStrings (system/bitstring.rs), each built from new()  *)
(* by append and delete calls with any count the documentation of delete    *)
(* allows (below W, counts above the current length included), then         *)
(* compared.  The calls on bs2 follow those on bs.  A call that panics ends *)
(* the run.                                                                  *)

\* the (bits, count) appended
EqOverAppendArgs == { << {}, 1 >>, << {0}, 1 >>, << 0..(W - 2), W - 1 >> }

\* the counts deleted
EqOverDeleteCounts == {1, W - 1}

EqOverAppend ==
    /\ op \in {"new", "append", "delete"}
    /\ bs_ret # "Panic"
    /\ steps < MaxEqOverOps
    /\ \E a \in EqOverAppendArgs :
        /\ arg' = a
        /\ bs' = append(bs, a[1], a[2])
    /\ bs_ret' = "Unit"
    /\ UNCHANGED bs_out
    /\ op' = "append"
    /\ bs_pre' = bs
    /\ steps' = steps + 1
    /\ UNCHANGED <<debug, bs3, input, vdb, vdb_pre, vdb_ret, vdb_out, bs2, bs2_pre>>

EqOverDelete ==
    /\ op \in {"new", "append", "delete"}
    /\ bs_ret # "Panic"
    /\ steps < MaxEqOverOps
    /\ \E count \in EqOverDeleteCounts :
        LET d == delete(bs, count) IN
        /\ arg' = << count >>
        /\ bs' = IF d.panic THEN bs ELSE d.sys
        /\ bs_ret' = IF d.panic THEN "Panic" ELSE "Word"
        /\ bs_out' = [k |-> d.ret, applied |-> 0]
    /\ op' = "delete"
    /\ bs_pre' = bs
    /\ steps' = steps + 1
    /\ UNCHANGED <<debug, bs3, input, vdb, vdb_pre, vdb_ret, vdb_out, bs2, bs2_pre>>

EqOver2Append ==
    /\ op \in {"new", "append", "delete", "append2", "delete2"}
    /\ bs_ret # "Panic"
    /\ steps < MaxEqOverOps
    /\ \E a \in EqOverAppendArgs :
        /\ arg' = a
        /\ bs2' = append(bs2, a[1], a[2])
    /\ bs_ret' = "Unit"
    /\ UNCHANGED bs_out
    /\ op' = "append2"
    /\ bs2_pre' = bs2
    /\ steps' = steps + 1
    /\ UNCHANGED <<debug, bs3, input, vdb, vdb_pre, vdb_ret, vdb_out, bs, bs_pre>>

EqOver2Delete ==
    /\ op \in {"new", "append", "delete", "append2", "delete2"}
    /\ bs_ret # "Panic"
    /\ steps < MaxEqOverOps
    /\ \E count \in EqOverDeleteCounts :
        LET d == delete(bs2, count) IN
        /\ arg' = << count >>
        /\ bs2' = IF d.panic THEN bs2 ELSE d.sys
        /\ bs_ret' = IF d.panic THEN "Panic" ELSE "Word"
        /\ bs_out' = [k |-> d.ret, applied |-> 0]
    /\ op' = "delete2"
    /\ bs2_pre' = bs2
    /\ steps' = steps + 1
    /\ UNCHANGED <<debug, bs3, input, vdb, vdb_pre, vdb_ret, vdb_out, bs, bs_pre>>

EqOverEq ==
    /\ op \in {"new", "append", "delete", "append2", "delete2"}
    /\ bs_ret # "Panic"
    /\ op' = "eq"
    /\ bs_ret' = IF eq(bs, bs2) THEN "true" ELSE "false"
    /\ UNCHANGED <<debug, bs3, input, vdb, vdb_pre, vdb_ret, vdb_out, bs_out, bs, bs_pre,
                   bs2, bs2_pre, arg, steps>>

NextEqOver ==
    EqOverAppend \/ EqOverDelete \/ EqOver2Append \/ EqOver2Delete \/ EqOverEq

SpecEqOver == InitBuf /\ [][NextEqOver]_vars

-----------------------------------------------------------------------------
(* SpecStep: a VecDequeBools and a BitString (system/bitstring.rs) built    *)
(* from the same input and evolved one step at a time, side by side; then   *)
(* evolve_preferred is called on the BitString, where its assertion on the  *)
(* length holds.                                                            *)

NextStep == NewDecompressed \/ Evolve \/ BsEvolvePreferred

SpecStep == Init /\ [][NextStep]_vars

-----------------------------------------------------------------------------
(* The rewrite rule and the expansion of a compressed input, as sequences *)

\* what one step appends after a block whose first symbol is lead
Production(lead) == IF lead THEN << TRUE, TRUE, FALSE, TRUE >> ELSE << FALSE, FALSE >>

\* one step of the rule on a list of at least 3 symbols
Rewrite(l) == SubSeq(l, 4, Len(l)) \o Production(l[1])

\* the concatenation of [b, 0, 0] for each boolean b of compressed
Expansion(compressed) ==
    [i \in 1..(3 * Len(compressed)) |-> (i % 3 = 1) /\ compressed[(i + 2) \div 3]]

-----------------------------------------------------------------------------
(* Claims checked under Spec *)

\* C4 (as claimed): evolve on a sequence of length 0, 1 or 2 reports halted
\* and leaves the materialized list and the length as they were, in
\* VecDequeBools and in BitString.
C4_HaltWithoutMutation ==
    op = "evolve" =>
        /\ vdb_length(vdb_pre) < 3 =>
                /\ vdb_ret = "Break"
                /\ vdb_as_list(vdb) = vdb_as_list(vdb_pre)
                /\ vdb_length(vdb) = vdb_length(vdb_pre)
        /\ ult(length(bs_pre), 3) =>
                /\ bs_ret = "Break"
                /\ as_list(bs) = as_list(bs_pre)
                /\ length(bs) = length(bs_pre)

\* C4: an evolve call was made on a VecDequeBools of length 2
C4_Witness == op = "evolve" /\ vdb_length(vdb_pre) = 2 /\ vdb_ret = "Break"

\* C5 (as claimed): built from the same input and evolved step by step, the
\* two representations have the same materialized list after every call and
\* the calls return the same result, the calls at and after the halt included.
C5_CrossRepresentation ==
    op \in {"new_decompressed", "evolve"} =>
        /\ vdb_as_list(vdb) = as_list(bs)
        /\ op = "evolve" => vdb_ret = bs_ret

\* C5: both representations have made the call that halts
C5_Witness == op = "evolve" /\ vdb_ret = "Break" /\ bs_ret = "Break"

\* C7: one evolve call on a sequence s of length >= 3 returns continued and
\* leaves s without its first 3 symbols followed by the production of s[1]
\* alone, in both representations.
C7_EvolutionRule ==
    op = "evolve" =>
        /\ vdb_length(vdb_pre) >= 3 =>
                vdb_ret = "Continue" /\ vdb_as_list(vdb) = Rewrite(vdb_as_list(vdb_pre))
        /\ Len(as_list(bs_pre)) >= 3 =>
                bs_ret = "Continue" /\ as_list(bs) = Rewrite(as_list(bs_pre))

\* C7: a step with leading symbol 1 whose deleted block crosses a word
\* boundary and whose second or third symbol is 1
C7_Witness ==
    /\ op = "evolve" /\ bs_ret = "Continue" /\ vdb_ret = "Continue"
    /\ bs_pre.start + 3 > W
    /\ as_list(bs_pre)[1] /\ (as_list(bs_pre)[2] \/ as_list(bs_pre)[3])

\* C8: the materialized list of new_decompressed(input) is the concatenation
\* of [b, 0, 0] for each boolean b of the input, in both representations.
C8_ConstructionFidelity ==
    op = "new_decompressed" =>
        /\ as_list(bs) = Expansion(input)
        /\ vdb_as_list(vdb) = Expansion(input)

\* C8: an input whose expansion crosses two word boundaries, with a 1 in the
\* third word
C8_Witness ==
    /\ op = "new_decompressed" /\ Len(bs.words) >= 3 /\ bs.words[3] # {}
    /\ Len(as_list(bs)) = 3 * Len(input)

\* C10: an evolve call returns continued exactly when the length is >= 3 at
\* the call, and after a call that reported halted every later call reports
\* halted, in both representations.
C10_EvolvabilityByLength ==
    /\ [](op = "evolve" =>
            /\ (vdb_ret = "Continue") <=> (vdb_length(vdb_pre) >= 3)
            /\ (bs_ret = "Continue") <=> ~ult(length(bs_pre), 3))
    /\ [][/\ (op = "evolve" /\ vdb_ret = "Break") => vdb_ret' = "Break"
          /\ (op = "evolve" /\ bs_ret = "Break") => bs_ret' = "Break"]_vars

\* C10: the call after the call that halted, on input [false]
C10_Witness ==
    /\ input = << FALSE >> /\ op = "evolve" /\ steps = 3
    /\ vdb_ret = "Break" /\ bs_ret = "Break"

-----------------------------------------------------------------------------
(* Claims checked under SpecBatch *)

RECURSIVE evolve_times(_, _)
\* k calls of evolve in a row, stopping at the first that does not continue
evolve_times(b, k) ==
    IF k = 0 THEN [sys |-> b, ret |-> "Continue"]
    ELSE LET r == evolve(b) IN
         IF r.ret # "Continue" THEN r ELSE evolve_times(r.sys, k - 1)

\* C9: on a sequence of length >= 3 * PREFERRED_TIMESTEP, one evolve_preferred
\* call leaves the materialized content that PREFERRED_TIMESTEP single evolve
\* calls on a copy leave, whatever the alignment of start and end.
C9_BatchedStepEquivalence ==
    op = "evolve_preferred" =>
        LET single == evolve_times(bs_pre, PREFERRED_TIMESTEP) IN
        /\ bs_ret = "Unit"
        /\ single.ret = "Continue"
        /\ as_list(bs) = as_list(single.sys)

\* C9: a batch whose delete crosses a word boundary and whose append pushes
\* a word, on a key with zeros and ones
C9_Witness ==
    /\ op = "evolve_preferred" /\ bs_ret = "Unit"
    /\ bs_pre.start + 3 * PREFERRED_TIMESTEP > W
    /\ bs.end < bs_pre.end
    /\ \E i, j \in 0..(PREFERRED_TIMESTEP - 1) :
            as_list(bs_pre)[3 * i + 1] /\ ~as_list(bs_pre)[3 * j + 1]

-----------------------------------------------------------------------------
(* Claims checked under SpecMulti *)

RECURSIVE single_steps_v1(_, _, _)
\* evolve called n times on b, stopping at the first call that halts: the
\* system, the outcome, and the number of steps applied (`applied` before)
single_steps_v1(b, n, applied) ==
    IF n = 0 THEN [sys |-> b, ret |-> "Continue", applied |-> applied]
    ELSE LET e == evolve_v1(b) IN
         IF e.ret # "Continue" THEN [sys |-> e.sys, ret |-> e.ret, applied |-> applied]
         ELSE single_steps_v1(e.sys, n - 1, applied + 1)

\* C1 (as claimed): evolve_multi(n) on the BitString ends with the content
\* and the continued/halted outcome of n single evolve calls on a copy
\* (stopping at the first halt), and with its halt step count: the number
\* of steps applied before the halting call, or, counting as the r-loop of
\* evolve_multi does, the number of calls made including it.
C1_BatchingTransparency ==
    op = "evolve_multi" =>
        LET ref == single_steps_v1(bs_pre, arg, 0) IN
        /\ as_list(bs) = as_list(ref.sys)
        /\ bs_ret = ref.ret
        /\ bs_ret = "Break" => bs_out.k \in {ref.applied, ref.applied + 1}

\* C1: an evolve_multi call that goes through evolve_preferred on a
\* BitString shorter than 3 * PREFERRED_TIMESTEP
C1_Witness ==
    /\ op = "evolve_multi" /\ arg >= PREFERRED_TIMESTEP_v1
    /\ length_v1(bs_pre) >= 3 /\ length_v1(bs_pre) < 3 * PREFERRED_TIMESTEP_v1

\* C2 (as claimed): when evolve_multi(n) reports Break(k), k is the number
\* of single steps applied during the call before the halt, in both
\* representations.
C2_ExactHaltCount ==
    op = "evolve_multi" =>
        /\ vdb_ret = "Break" => vdb_out.k = vdb_out.applied
        /\ bs_ret = "Break" => bs_out.k = bs_out.applied

\* C2: input [false] evolved with n = 2 halts after one step
C2_Witness ==
    /\ op = "evolve_multi" /\ input = << FALSE >> /\ arg = 2 /\ steps = 1
    /\ vdb_ret = "Break" /\ bs_ret = "Break"
    /\ vdb_out.applied = 1 /\ bs_out.applied = 1

\* C3 (as claimed): when evolve_multi(n) reports Break(k), k <= n, in both
\* representations.
C3_HaltCountBound ==
    op = "evolve_multi" =>
        /\ vdb_ret = "Break" => vdb_out.k <= arg
        /\ bs_ret = "Break" => bs_out.k <= arg

\* C3: an evolve_multi call that reports a halt
C3_Witness == op = "evolve_multi" /\ bs_ret = "Break" /\ vdb_ret = "Break" /\ arg > 0

\* C13 (as claimed): in every execution of evolve_multi, and of the
\* evolve_preferred calls it makes, on a BitString, the batched delete of
\* 3 * PREFERRED_TIMESTEP bits is executed only on a length of at least
\* 3 * PREFERRED_TIMESTEP; on a shorter sequence only single evolve calls are
\* made.
C13_BatchedDeleteGuarded ==
    op = "evolve_multi" => ~bs_out.unguarded

\* C13: evolve_multi has called evolve_preferred on a sequence shorter than
\* 3 * PREFERRED_TIMESTEP that no single step halts
C13_Witness ==
    /\ op = "evolve_multi" /\ arg >= PREFERRED_TIMESTEP_v1
    /\ length_v1(bs_pre) >= 3 /\ length_v1(bs_pre) < 3 * PREFERRED_TIMESTEP_v1
    /\ bs_ret = "Continue"

-----------------------------------------------------------------------------
(* Claims checked under SpecBuf *)

\* C6 (as claimed): for buffers a and b reached by append and delete calls,
\* a == b is true exactly when as_list(a) and as_list(b) are the same list,
\* whatever their start offsets, word counts and deleted bits.
C6_EqualityCorrectness ==
    op = "eq" => ((bs_ret = "true") <=> (as_list(bs) = as_list(bs2)))

\* C6: two buffers of the same non-empty content compared, bits having been
\* deleted from both
C6_Witness ==
    /\ op = "eq" /\ as_list(bs) = as_list(bs2) /\ as_list(bs) # << >>
    /\ bs.start > 0 /\ bs2.start > 0

-----------------------------------------------------------------------------
(* Claims checked under SpecOver *)

\* the word whose bit i is l[i + 1], for a list of at most W symbols
WordOf(l) == {i \in 0..(Len(l) - 1) : l[i + 1]}

\* C11 (as claimed): delete(count) with count < W above the current length
\* does not fail, returns the available bits in its low positions and leaves
\* the buffer empty: as_list() is the empty list and length() is 0, in both
\* BitString variants.
C11_OverDeleteLeavesEmpty ==
    /\ (/\ op = "delete"
        /\ length(bs_pre) = Len(as_list(bs_pre))
        /\ arg[1] > length(bs_pre))
            => /\ bs_ret # "Panic"
               /\ bs_out.k = WordOf(as_list(bs_pre))
               /\ as_list(bs) = << >>
               /\ length(bs) = 0
    /\ (/\ op = "delete_v1"
        /\ length_v1(bs2_pre) = Len(as_list(bs2_pre))
        /\ arg[1] > length_v1(bs2_pre))
            => /\ bs_ret # "Panic"
               /\ bs_out.k = WordOf(as_list(bs2_pre))
               /\ as_list(bs2) = << >>
               /\ ~length_panics_v1(bs2)
               /\ length_v1(bs2) = 0

\* C11: a delete of more bits than a non-empty buffer holds
C11_Witness ==
    /\ op = "delete" /\ arg[1] < W
    /\ length(bs_pre) = Len(as_list(bs_pre))
    /\ length(bs_pre) > 0 /\ arg[1] > length(bs_pre)

-----------------------------------------------------------------------------
(* Claims checked under SpecOps *)

\* C12: after construction and after every append, delete, evolve and
\* evolve_preferred call made within the requirements of the method, the
\* cached length is (wordCount - 1) * W + end - start and is the number of
\* symbols of as_list().
C12_CachedLength ==
    /\ length(bs) = (Len(bs.words) - 1) * W + bs.end - bs.start
    /\ length(bs) = Len(as_list(bs))

\* C12: a delete that crosses a word boundary, as the last of MaxOps calls
\* on a buffer of several words built from an input
C12_Witness ==
    /\ op = "delete" /\ bs_ret = "Word"
    /\ bs_pre.start + arg[1] >= W /\ Len(bs_pre.words) >= 2
    /\ steps = MaxOps /\ input # << >>

\* the list of the low count bits of a word, least significant first
ListOf(bits, count) == [i \in 1..count |-> (i - 1) \in bits]

\* C14 (as claimed): on a buffer with materialized list L, delete(count) with
\* 0 <= count < W and count <= |L| returns the word whose bit i, i < count,
\* is L[i] and whose other bits are 0, and leaves as_list() equal to L
\* without its first count symbols, in both BitString variants; count = 0
\* and deletes reaching or crossing the word boundary included.
C14_DeleteContract ==
    /\ (op = "delete" /\ arg[1] <= Len(as_list(bs_pre)))
            => /\ bs_ret = "Word"
               /\ bs_out.k = WordOf(SubSeq(as_list(bs_pre), 1, arg[1]))
               /\ as_list(bs) = SubSeq(as_list(bs_pre), arg[1] + 1, Len(as_list(bs_pre)))
    /\ (op = "delete_v1" /\ arg[1] <= Len(as_list(bs2_pre)))
            => /\ bs_ret = "Word"
               /\ bs_out.k = WordOf(SubSeq(as_list(bs2_pre), 1, arg[1]))
               /\ as_list(bs2) = SubSeq(as_list(bs2_pre), arg[1] + 1, Len(as_list(bs2_pre)))

\* C14: delete(0) was called on a buffer whose first live bit is 1
C14_Witness ==
    /\ op = "delete" /\ arg[1] = 0
    /\ Len(as_list(bs_pre)) > 0 /\ as_list(bs_pre)[1]

\* C15 (as claimed): on a buffer with materialized list L, append(bits, count)
\* with count <= W and no bit of `bits` at or above count leaves as_list()
\* equal to L followed by bits[0], .., bits[count-1], and the length grown by
\* exactly count, also when end + count reaches or crosses the word boundary.
C15_AppendContract ==
    op = "append" =>
        /\ as_list(bs) = as_list(bs_pre) \o ListOf(arg[1], arg[2])
        /\ length(bs) = length(bs_pre) + arg[2]

\* C15: an append of W - 1 bits that crosses the word boundary
C15_Witness ==
    /\ op = "append" /\ arg[2] = W - 1
    /\ bs_pre.end > 1 /\ Len(bs.words) = Len(bs_pre.words) + 1

\* C16 (as claimed): whenever the buffer is logically empty (length 0, empty
\* as_list()), it holds exactly one word and start = end = 0; in particular
\* after a delete of exactly the remaining bits.
C16_CanonicalEmpty ==
    (/\ op \in {"new", "append", "delete"}
     /\ bs_ret # "Panic"
     /\ length(bs) = 0 /\ as_list(bs) = << >>)
        => Len(bs.words) = 1 /\ bs.start = 0 /\ bs.end = 0

\* C16: a delete of exactly the bits of a non-empty buffer
C16_Witness ==
    /\ op = "delete" /\ bs_ret = "Word"
    /\ length(bs_pre) > 0 /\ arg[1] = length(bs_pre)
    /\ length(bs) = 0 /\ as_list(bs) = << >>

\* C17: after any sequence of new, append (count <= W) and delete
\* (count < W, counts above the length included) calls, the buffer holds at
\* least one word and start and end are in [0, W), in both BitString
\* variants: the front and back accesses of append, delete and eq find a
\* word.
C17_StructuralInvariant ==
    /\ Len(bs.words) >= 1 /\ bs.start \in 0..(W - 1) /\ bs.end \in 0..(W - 1)
    /\ Len(bs2.words) >= 1 /\ bs2.start \in 0..(W - 1) /\ bs2.end \in 0..(W - 1)

\* C17: a delete above the length that pops the only word of the buffer,
\* whose start is not 0
C17_Witness ==
    /\ op = "delete_v1" /\ bs_ret = "Word"
    /\ Len(bs2_pre.words) = 1 /\ bs2_pre.start + arg[1] >= W
    /\ arg[1] > length_v1(bs2_pre)
    /\ bs2_pre.start > 0 /\ bs2_pre.start < W - 2

\* C20 (as claimed): on a logically empty buffer, at any start and end
\* offset, append(bits, count) with 0 <= count < W and no bit of `bits` at or
\* above count, followed immediately by delete(count), returns exactly
\* `bits` and leaves the buffer with the content it had before the append.
C20_AppendDeleteRoundTrip ==
    [][(/\ op = "append"
        /\ as_list(bs_pre) = << >> /\ length(bs_pre) = 0
        /\ arg[2] < W
        /\ op' = "delete" /\ arg'[1] = arg[2])
            => /\ bs_ret' = "Word"
               /\ bs_out'.k = arg[1]
               /\ as_list(bs') = as_list(bs_pre)]_vars

\* C20: delete(count) was called right after append(bits, count) on a new
\* buffer, with count > 0 and bits # 0
C20_Witness ==
    /\ op = "delete" /\ steps = 2 /\ arg[1] > 0
    /\ Len(as_list(bs_pre)) = arg[1] /\ bs_pre.words[1] # {}

-----------------------------------------------------------------------------
(* Claims checked under SpecLut *)

RECURSIVE ProductionsFrom(_, _, _)
\* the productions of bits i, .., T - 1 of key, one after the other
ProductionsFrom(key, i, T) ==
    IF i >= T THEN << >>
    ELSE Production(i \in key) \o ProductionsFrom(key, i + 1, T)

\* the entry read for `arg` decodes to the productions of the T bits of arg
EntryCorrect(T) ==
    LET pattern == bs_out.k \cap 0..47
        count == ToNat(shr(bs_out.k, 48))
        expected == ProductionsFrom(arg, 0, T)
    IN  /\ pattern = WordOf(expected)
        /\ count = Len(expected)
        /\ count = 2 * T + 2 * Cardinality(arg)
        /\ count <= 48
        /\ pattern \cap count..(W - 1) = {}

\* C18: for every key below 2^T the table entry decodes (low 48 bits the
\* pattern, high 16 bits the count) to the concatenation, for i = 0..T-1, of
\* [0,0] when bit i of the key is 0 and [1,1,0,1] when it is 1; the count is
\* 2T + 2 popcount(key), at most 48, and no bit of the pattern is at or above
\* the count.  In both tables (T = 11 and T = 10).
C18_BatchTable ==
    /\ op = "lut" => EntryCorrect(PREFERRED_TIMESTEP)
    /\ op = "lut_v1" => EntryCorrect(PREFERRED_TIMESTEP_v1)

\* C18: the entry of a key whose ones and zeros are not symmetric, read from
\* the table of 2^11 entries
C18_Witness ==
    /\ op = "lut" /\ arg = {0, 1, 4, PREFERRED_TIMESTEP - 1}
    /\ bs_out.k # {}

-----------------------------------------------------------------------------
(* Claims checked under SpecEq3 *)

\* C19 (as claimed): == is an equivalence relation on the buffers a, b, c
\* built by append and delete calls: a == a; a == b exactly when b == a; and
\* a == b with b == c gives a == c, whatever the start offsets and the bits
\* deleted before.
C19_EqualityIsEquivalence ==
    op = "eq3" =>
        /\ bs_out.aa
        /\ bs_out.ab <=> bs_out.ba
        /\ (bs_out.ab /\ bs_out.bc) => bs_out.ac

\* C19: three buffers with equal content were compared, the first and the
\* third with bits deleted, the second without
C19_Witness ==
    /\ op = "eq3"
    /\ as_list(bs) = as_list(bs2) /\ as_list(bs2) = as_list(bs3)
    /\ bs.start > 0 /\ bs2.start = 0 /\ bs3.start > 0

-----------------------------------------------------------------------------
(* Claims checked under SpecEqOver *)

\* C21 (as claimed): for every pair of buffers a, b built by append and
\* delete calls, if a == b returns true then as_list(a) and as_list(b) are
\* the same list, also when one buffer has one more trailing word than the
\* other.
C21_EqualitySoundness ==
    (op = "eq" /\ bs_ret = "true") => as_list(bs) = as_list(bs2)

\* C21: two buffers of different content and equal length were compared,
\* one of them with one word more than the other
C21_Witness ==
    /\ op = "eq" /\ bs_ret = "false"
    /\ length(bs) = length(bs2) /\ as_list(bs) # as_list(bs2)
    /\ Len(bs2.words) = Len(bs.words) + 1

-----------------------------------------------------------------------------
(* Claims checked under SpecStep *)

\* the change of length of one step on a sequence whose first symbol is lead
Delta(lead) == IF lead THEN 1 ELSE -1

\* C22: in both representations an evolve call that returns continued
\* changes the length by -1 when the leading symbol was 0 and by +1 when it
\* was 1, and leaves at least 2 symbols; evolve_preferred on a BitString of
\* length L >= 3 * PREFERRED_TIMESTEP leaves a length in
\* [L - PREFERRED_TIMESTEP, L + PREFERRED_TIMESTEP].
C22_LengthChangePerStep ==
    /\ (op = "evolve" /\ vdb_ret = "Continue")
            => /\ vdb_length(vdb) = vdb_length(vdb_pre) + Delta(vdb_as_list(vdb_pre)[1])
               /\ vdb_length(vdb) >= 2
    /\ (op = "evolve" /\ bs_ret = "Continue")
            => /\ length(bs) = length(bs_pre) + Delta(as_list(bs_pre)[1])
               /\ Len(as_list(bs)) = Len(as_list(bs_pre)) + Delta(as_list(bs_pre)[1])
               /\ length(bs) >= 2
    /\ (op = "evolve_preferred" /\ bs_ret = "Unit")
            => /\ length(bs) >= length(bs_pre) - PREFERRED_TIMESTEP
               /\ length(bs) <= length(bs_pre) + PREFERRED_TIMESTEP
               /\ Len(as_list(bs)) = length(bs)

\* C22: a continued step on a sequence of 3 symbols with leading 0, which
\* leaves exactly 2, in both representations
C22_Witness ==
    /\ op = "evolve" /\ vdb_ret = "Continue" /\ bs_ret = "Continue"
    /\ vdb_length(vdb_pre) = 3 /\ ~vdb_as_list(vdb_pre)[1]
    /\ length(bs_pre) = 3 /\ length(bs) = 2

====
